---- MODULE Spec2Model ----
(***************************************************************************)
(* Model of the height-and-weight finder: the wizard App (src/App.tsx),    *)
(* the oracle client analyzeImageForMetrics (src/services/geminiService.ts)*)
(* and the metric derivation (src/utils/bmi.ts).                           *)
(*                                                                         *)
(* A JavaScript value is a record [t, b, n, s]: t is what typeof gives,    *)
(* and b, n or s holds the value.  A message is the sequence of its words, *)
(* so that String.startsWith is a prefix test and not an equality.         *)
(* A BMI is an exact fraction [num, den] with den > 0.                     *)
(***************************************************************************)
EXTENDS Integers, Sequences, FiniteSets, TLC

VARIABLES mode, result, error, referenceChoice, call, analyses, requests,
          calls, calc, cameraInput, imageInput, display, validation

vars == <<mode, result, error, referenceChoice, call, analyses, requests,
          calls, calc, cameraInput, imageInput, display, validation>>

\* The state of the App component
appVars == <<mode, result, error, referenceChoice, call, analyses, requests>>

\* What lies outside the App component: the invocations of
\* analyzeImageForMetrics made by another caller, an evaluation of the
\* functions of utils/bmi.ts, the components CameraInput, ImageInput and
\* ResultDisplay taken on their own, and the two versions of
\* analyzeImageForMetrics applied to one oracle result
outsideApp == <<calls, calc, cameraInput, imageInput, display, validation>>

\* Bound on the number of analyses a run starts.
MaxAnalyses == 2

----------------------------------------------------------------------------
\* JavaScript values

Bool(x) == [t |-> "boolean", b |-> x, n |-> 0, s |-> ""]
Num(x) == [t |-> "number", b |-> FALSE, n |-> x, s |-> ""]
Str(x) == [t |-> "string", b |-> FALSE, n |-> 0, s |-> x]
Undefined == [t |-> "undefined", b |-> FALSE, n |-> 0, s |-> ""]

typeof(v) == v.t

\* String.prototype.startsWith on word sequences
startsWith(msg, prefix) ==
    /\ Len(msg) >= Len(prefix)
    /\ SubSeq(msg, 1, Len(prefix)) = prefix

----------------------------------------------------------------------------
\* Messages of geminiService.ts and App.tsx

ErrInvalidTypes == <<"Invalid", "data", "types in API response.">>
ErrNoPerson == <<"The", "AI", "couldn't find a person in the image. Please try a photo with a clear view of one adult.">>
ErrChild == <<"This", "analysis", "is for adults only. The person in the image appears to be a child.">>
ErrUnclear == <<"The", "image", "is too blurry or unclear for an accurate analysis. Please try a higher-quality photo.">>
ErrUnable == <<"The", "AI", "was unable to analyze this image. Please try a different one.">>
ErrInvalidMetrics == <<"The", "AI", "returned invalid metric values. Please try a different image.">>
ErrConnection == <<"Failed", "to", "get a valid response from the AI model. Please check your connection and try again.">>
ErrUnknown == <<"An", "unknown", "error occurred.">>

\* Errors raised by the runtime inside the try block
ErrTrimOfUndefined == <<"Cannot", "read", "properties of undefined (reading 'trim')">>
ErrJsonSyntax == <<"Unexpected", "token", "in JSON at position 0">>
ErrPropertyOfNull == <<"Cannot", "read", "properties of null (reading 'analysisSuccess')">>

\* A thrown value: an Error with a message, or something that is no Error
Thrown(isErr, msg) == [isError |-> isErr, message |-> msg]
NoThrown == Thrown(FALSE, <<>>)

----------------------------------------------------------------------------
\* What the oracle call can produce

AnalysisSuccessValues == {Bool(TRUE), Bool(FALSE), Undefined}
HeightValues == {Num(-5), Num(0), Num(175), Undefined}
WeightValues == {Num(0), Num(70), Num(100), Str("70"), Undefined}
AccuracyValues == {Str("high"), Str("medium"), Str("low"), Str("bogus"), Undefined}
ReasonValues == {Undefined, Str("no_person_detected"), Str("child_detected"),
                 Str("image_unclear"), Str("no_reference_object")}

\* The parsed JSON object (GeminiAnalysisResponse, unvalidated)
Responses ==
    [analysisSuccess : AnalysisSuccessValues, heightCm : HeightValues,
     weightKg : WeightValues, accuracy : AccuracyValues, reason : ReasonValues]

NoData ==
    [analysisSuccess |-> Undefined, heightCm |-> Undefined, weightKg |-> Undefined,
     accuracy |-> Undefined, reason |-> Undefined]

\* Rejections of ai.models.generateContent: network error, oracle
\* unavailable, aborted request, and a thrown value that is no Error
TransportErrors ==
    {Thrown(TRUE, <<"Failed", "to", "fetch">>),
     Thrown(TRUE, <<"got", "status:", "503 Service Unavailable">>),
     Thrown(TRUE, <<"The", "operation", "was aborted.">>),
     Thrown(FALSE, <<"timeout">>)}

Raw(k, th, d) == [kind |-> k, thrown |-> th, data |-> d]

\* kind: "reject"  generateContent rejects with thrown
\*       "notext"  the response has no text
\*       "badjson" the text is no JSON
\*       "null"    the text is the JSON null
\*       "object"  the text is a JSON object, data
OracleResults ==
    {Raw("reject", th, NoData) : th \in TransportErrors}
      \cup {Raw(k, NoThrown, NoData) : k \in {"notext", "badjson", "null"}}
      \cup {Raw("object", NoThrown, d) : d \in Responses}

----------------------------------------------------------------------------
\* src/utils/bmi.ts

RECURSIVE GCD(_, _)
GCD(a, b) == IF b = 0 THEN a ELSE GCD(b, a % b)

\* The quotient a / b (a >= 0, b > 0) in lowest terms
Frac(a, b) == [num |-> a \div GCD(a, b), den |-> b \div GCD(a, b)]

\* calculateBMI with the height left in centimetres
calculateBMICentimetres(heightCm, weightKg) ==
    IF heightCm <= 0 \/ weightKg <= 0
    THEN Frac(0, 1)
    ELSE Frac(weightKg, heightCm * heightCm)

\* calculateBMI dividing by the height in metres, not by its square
calculateBMINoSquare(heightCm, weightKg) ==
    IF heightCm <= 0 \/ weightKg <= 0
    THEN Frac(0, 1)
    ELSE Frac(weightKg * 100, heightCm)

calculateBMI(heightCm, weightKg) ==
    IF heightCm <= 0 \/ weightKg <= 0
    THEN Frac(0, 1)
    ELSE Frac(weightKg * 100 * 100, heightCm * heightCm)

\* bmi < a/b for b > 0
FracLess(bmi, a, b) == bmi.num * b < a * bmi.den

\* getBmiCategory with <= in place of < at every threshold
getBmiCategoryInclusive(bmi) ==
    IF ~FracLess(Frac(185, 10), bmi.num, bmi.den)
    THEN [category |-> "Underweight", color |-> "#3b82f6"]
    ELSE IF ~FracLess(Frac(25, 1), bmi.num, bmi.den)
    THEN [category |-> "Normal weight", color |-> "#22c55e"]
    ELSE IF ~FracLess(Frac(30, 1), bmi.num, bmi.den)
    THEN [category |-> "Overweight", color |-> "#f97316"]
    ELSE [category |-> "Obese", color |-> "#ef4444"]

getBmiCategory(bmi) ==
    IF FracLess(bmi, 185, 10)
    THEN [category |-> "Underweight", color |-> "#3b82f6"]
    ELSE IF ~FracLess(bmi, 185, 10) /\ FracLess(bmi, 25, 1)
    THEN [category |-> "Normal weight", color |-> "#22c55e"]
    ELSE IF ~FracLess(bmi, 25, 1) /\ FracLess(bmi, 30, 1)
    THEN [category |-> "Overweight", color |-> "#f97316"]
    ELSE [category |-> "Obese", color |-> "#ef4444"]

----------------------------------------------------------------------------
\* src/services/geminiService.ts, analyzeImageForMetrics

\* The outcome of the try block or of the whole call.  site is the statement
\* of the try block that ended it, raised what the try block threw, thrown
\* what the caller receives.
Return(h, w, a) ==
    [kind |-> "return", heightCm |-> h, weightKg |-> w, accuracy |-> a,
     raised |-> NoThrown, thrown |-> NoThrown, site |-> "return"]

Throw(th, at) ==
    [kind |-> "throw", heightCm |-> 0, weightKg |-> 0, accuracy |-> "",
     raised |-> th, thrown |-> th, site |-> at]

NoOutcome ==
    [kind |-> "none", heightCm |-> 0, weightKg |-> 0, accuracy |-> "",
     raised |-> NoThrown, thrown |-> NoThrown, site |-> "none"]

\* The type check without the test of accuracy
TypeCheckFailsNoAccuracy(data) ==
    \/ typeof(data.analysisSuccess) # "boolean"
    \/ typeof(data.heightCm) # "number"
    \/ typeof(data.weightKg) # "number"

\* The type check with && in place of ||
TypeCheckFailsAll(data) ==
    /\ typeof(data.analysisSuccess) # "boolean"
    /\ typeof(data.heightCm) # "number"
    /\ typeof(data.weightKg) # "number"
    /\ typeof(data.accuracy) # "string"

\* line 82: the condition of the type check
TypeCheckFails(data) ==
    \/ typeof(data.analysisSuccess) # "boolean"
    \/ typeof(data.heightCm) # "number"
    \/ typeof(data.weightKg) # "number"
    \/ typeof(data.accuracy) # "string"

\* The switch with a case for no_reference_object
ReasonErrorLegacy(reason) ==
    IF reason = Str("no_person_detected") THEN ErrNoPerson
    ELSE IF reason = Str("child_detected") THEN ErrChild
    ELSE IF reason = Str("image_unclear") THEN ErrUnclear
    ELSE IF reason = Str("no_reference_object")
    THEN <<"The", "AI", "couldn't find a reference object in the image.">>
    ELSE ErrUnable

\* lines 87-96: switch (data.reason), a strict comparison with each case
ReasonError(reason) ==
    IF reason = Str("no_person_detected") THEN ErrNoPerson
    ELSE IF reason = Str("child_detected") THEN ErrChild
    ELSE IF reason = Str("image_unclear") THEN ErrUnclear
    ELSE ErrUnable

\* The metric check with < in place of <=
MetricsInvalidStrict(data) == data.heightCm.n < 0 \/ data.weightKg.n < 0

\* line 99
MetricsInvalid(data) == data.heightCm.n <= 0 \/ data.weightKg.n <= 0

\* The success value with height and weight exchanged
SuccessValueSwapped(data) == Return(data.weightKg.n, data.heightCm.n, data.accuracy.s)

\* lines 103-107
SuccessValue(data) == Return(data.heightCm.n, data.weightKg.n, data.accuracy.s)

\* The checks with the metric check ahead of the analysisSuccess check
ValidateMetricsFirst(data) ==
    IF TypeCheckFails(data)
    THEN Throw(Thrown(TRUE, ErrInvalidTypes), "typecheck")
    ELSE IF MetricsInvalid(data)
    THEN Throw(Thrown(TRUE, ErrInvalidMetrics), "metrics")
    ELSE IF ~data.analysisSuccess.b
    THEN Throw(Thrown(TRUE, ReasonError(data.reason)), "reason")
    ELSE SuccessValue(data)

\* lines 82-107: the checks on the parsed data, in the order of the code
Validate(data) ==
    IF TypeCheckFails(data)
    THEN Throw(Thrown(TRUE, ErrInvalidTypes), "typecheck")
    ELSE IF ~data.analysisSuccess.b
    THEN Throw(Thrown(TRUE, ReasonError(data.reason)), "reason")
    ELSE IF MetricsInvalid(data)
    THEN Throw(Thrown(TRUE, ErrInvalidMetrics), "metrics")
    ELSE SuccessValue(data)

\* lines 69-107: the try block, given what the oracle call produced
TryBlock(raw) ==
    CASE raw.kind = "reject" -> Throw(raw.thrown, "generateContent")
      [] raw.kind = "notext" -> Throw(Thrown(TRUE, ErrTrimOfUndefined), "trim")
      [] raw.kind = "badjson" -> Throw(Thrown(TRUE, ErrJsonSyntax), "JSON.parse")
      [] raw.kind = "null" -> Throw(Thrown(TRUE, ErrPropertyOfNull), "typecheck")
      [] OTHER -> Validate(raw.data)

\* line 111: the errors the catch block passes on unchanged
IsOwnError(th) ==
    /\ th.isError
    /\ \/ startsWith(th.message, <<"The", "AI">>)
       \/ startsWith(th.message, <<"This", "analysis">>)

\* lines 109-115
CatchBlock(th) == IF IsOwnError(th) THEN th ELSE Thrown(TRUE, ErrConnection)

\* line 49
highAccuracyInstruction ==
    <<"A standard A4 or Letter size paper IS present on the floor near the person's feet.",
      "You MUST use it as a precise scale to determine the person's height.",
      "Set 'accuracy' to 'high'.">>

\* line 51
mediumLowAccuracyInstruction ==
    <<"You must estimate the person's height and weight without a dedicated reference object.",
      "Act as a photogrammetry expert.",
      "Analyze the scene for common objects to establish scale.",
      "For example: a standard interior door is ~203 cm tall, a light switch is typically ~122 cm from the floor, and a standard chair seat is ~45 cm high.",
      "Use these environmental cues to create a plausible scale.",
      "If usable cues are present, set 'accuracy' to 'medium'.",
      "If no reference objects are found, make a rough estimate based on visual cues and general human proportions.",
      "In this case, set 'accuracy' to 'low'.">>

\* lines 54-59: the text up to the interpolated instruction
textHead ==
    <<"Your task is to estimate the height and weight of the person in the image.",
      "You MUST provide an estimate.",
      "Follow this process:",
      "1. Identify the person: Find the adult person in the image.",
      "If no person is found, the image is unclear, or the person is a child, set 'analysisSuccess' to false and provide a reason.",
      "2. Estimate with scale:">>

\* lines 60-66: the text after the interpolated instruction
textTail ==
    <<"3. Provide the result: Respond with the JSON object containing your estimates.",
      "RULES:",
      "You MUST ALWAYS return a valid JSON object matching the schema.",
      "'analysisSuccess' should be 'true' as long as you can provide any estimate (high, medium, or low accuracy).",
      "Only set 'analysisSuccess' to 'false' for the specific failure reasons: 'no_person_detected', 'child_detected', 'image_unclear'.",
      "The absence of a reference object is NOT a failure condition if the user did not state one would be present.">>

\* The text with the two instructions exchanged
textPartSwapped(hasReference) ==
    textHead
      \o (IF hasReference THEN mediumLowAccuracyInstruction ELSE highAccuracyInstruction)
      \o textTail

\* lines 53-67: the text of the request, sentence by sentence
textPart(hasReference) ==
    textHead
      \o (IF hasReference THEN highAccuracyInstruction ELSE mediumLowAccuracyInstruction)
      \o textTail

\* lines 42-47 and 70-77: the request given to generateContent
Request(base64Image, hasReference) ==
    [model |-> "gemini-2.5-flash", mimeType |-> "image/jpeg", image |-> base64Image,
     text |-> textPart(hasReference)]

NoRequest == [model |-> "", mimeType |-> "", image |-> "", text |-> <<>>]

\* The call failing without a reference object when the accuracy is low
analyzeImageForMetricsNeedsReference(base64Image, hasReference, raw) ==
    LET r == TryBlock(raw)
    IN IF r.kind = "return"
       THEN IF ~hasReference /\ r.accuracy = "low"
            THEN Throw(Thrown(TRUE, ErrUnable), "reason")
            ELSE r
       ELSE [r EXCEPT !.thrown = CatchBlock(r.raised)]

\* lines 40-116: the outcome of a call with the given arguments whose oracle
\* call produced raw.  The arguments go into the request only.
analyzeImageForMetrics(base64Image, hasReference, raw) ==
    LET r == TryBlock(raw)
    IN IF r.kind = "return" THEN r ELSE [r EXCEPT !.thrown = CatchBlock(r.raised)]

----------------------------------------------------------------------------
\* src/App.tsx, App

Images == {"img1", "img2"}

NoRaw == Raw("none", NoThrown, NoData)

\* The invocation of analyzeImageForMetrics made by handleAnalysis: issued
\* counts the generateContent requests of this invocation.
IdleCall ==
    [pc |-> "idle", image |-> "", hasReference |-> FALSE, issued |-> 0,
     request |-> NoRequest, raw |-> NoRaw, outcome |-> NoOutcome]

\* Two invocations by another caller, none of them started
Callers == {1, 2}
IdleCalls == [i \in Callers |-> IdleCall]

\* An evaluation of calculateBMI and getBmiCategory: their arguments and what
\* they returned
IdleCalc ==
    [pc |-> "idle", from |-> "", heightCm |-> 0, weightKg |-> 0, bmi |-> Frac(0, 1),
     category |-> "", color |-> ""]

\* CameraInput, ImageInput and ResultDisplay not rendered, and no result of
\* the oracle under validation
IdleCameraInput == [mounted |-> FALSE]
IdleImageInput == [mounted |-> FALSE]
IdleDisplay == [pc |-> "idle", from |-> ""]
IdleValidation == [pc |-> "idle", current |-> NoOutcome, earlier |-> NoOutcome]

\* App before the first user action
AppInit ==
    /\ mode = "select"
    /\ result = <<>>
    /\ error = <<>>
    /\ referenceChoice = "null"
    /\ call = IdleCall
    /\ analyses = 0
    /\ requests = 0

Init ==
    /\ mode = "select"
    /\ result = <<>>
    /\ error = <<>>
    /\ referenceChoice = "null"
    /\ call = IdleCall
    /\ analyses = 0
    /\ requests = 0
    /\ calls = IdleCalls
    /\ calc = IdleCalc
    /\ cameraInput = IdleCameraInput
    /\ imageInput = IdleImageInput
    /\ display = IdleDisplay
    /\ validation = IdleValidation

\* lines 22-24, the two buttons of the reference question (lines 53-71)
handleReferenceChoice(choice) ==
    /\ mode = "select"
    /\ referenceChoice = "null"
    /\ referenceChoice' = choice
    /\ UNCHANGED <<mode, result, error, call, analyses, requests>>
    /\ UNCHANGED outsideApp

\* line 75: the back arrow of the upload/camera choice
backToReferenceQuestion ==
    /\ mode = "select"
    /\ referenceChoice # "null"
    /\ referenceChoice' = "null"
    /\ UNCHANGED <<mode, result, error, call, analyses, requests>>
    /\ UNCHANGED outsideApp

\* handleStart offered on the reference question as well
handleStartBeforeChoice(selectedMode) ==
    /\ mode = "select"
    /\ mode' = selectedMode
    /\ UNCHANGED <<result, error, referenceChoice, call, analyses, requests>>
    /\ UNCHANGED outsideApp

\* handleStart dismissing the stored error
handleStartClearsError(selectedMode) ==
    /\ mode = "select"
    /\ referenceChoice # "null"
    /\ mode' = selectedMode
    /\ error' = <<>>
    /\ UNCHANGED <<result, referenceChoice, call, analyses, requests>>
    /\ UNCHANGED outsideApp

\* lines 18-20, the buttons of lines 79 and 83
handleStart(selectedMode) ==
    /\ mode = "select"
    /\ referenceChoice # "null"
    /\ mode' = selectedMode
    /\ UNCHANGED <<result, error, referenceChoice, call, analyses, requests>>
    /\ UNCHANGED outsideApp

\* onBack offered on the loading screen as well
onBackWhileLoading ==
    /\ mode \in {"upload", "camera", "loading"}
    /\ mode' = "select"
    /\ UNCHANGED <<result, error, referenceChoice, call, analyses, requests>>
    /\ UNCHANGED outsideApp

\* lines 92 and 94: onBack of ImageInput and CameraInput
onBack ==
    /\ mode \in {"upload", "camera"}
    /\ mode' = "select"
    /\ UNCHANGED <<result, error, referenceChoice, call, analyses, requests>>
    /\ UNCHANGED outsideApp

\* lines 26-32: handleAnalysis up to the await, and the request that
\* analyzeImageForMetrics issues (geminiService.ts line 70)
handleAnalysis(base64Image) ==
    /\ mode \in {"upload", "camera"}
    /\ analyses < MaxAnalyses
    /\ IF referenceChoice = "null"
       THEN UNCHANGED vars
       ELSE /\ mode' = "loading"
            /\ error' = <<>>
            /\ call' = [pc |-> "awaiting", image |-> base64Image,
                        hasReference |-> (referenceChoice = "yes"), issued |-> 1,
                        request |-> Request(base64Image, referenceChoice = "yes"),
                        raw |-> NoRaw, outcome |-> NoOutcome]
            /\ analyses' = analyses + 1
            /\ requests' = requests + 1
            /\ UNCHANGED <<result, referenceChoice>>
            /\ UNCHANGED outsideApp

\* The settling step storing the fallback message for every failure
oracleSettlesUnknownError(raw) ==
    /\ call.pc = "awaiting"
    /\ LET out == analyzeImageForMetrics(call.image, call.hasReference, raw)
           bmi == calculateBMI(out.heightCm, out.weightKg)
           categoryInfo == getBmiCategory(bmi)
       IN /\ call' = [call EXCEPT !.pc = "done", !.raw = raw, !.outcome = out]
          /\ IF out.kind = "return"
             THEN /\ result' = <<[heightCm |-> out.heightCm, weightKg |-> out.weightKg,
                                  bmi |-> bmi, accuracy |-> out.accuracy,
                                  category |-> categoryInfo.category,
                                  color |-> categoryInfo.color]>>
                  /\ mode' = "result"
                  /\ UNCHANGED error
             ELSE /\ error' = ErrUnknown
                  /\ mode' = "select"
                  /\ UNCHANGED result
    /\ UNCHANGED <<referenceChoice, analyses, requests>>
    /\ UNCHANGED outsideApp

\* The settling step with one retry of the request after a failure
oracleSettlesRetry(raw) ==
    /\ call.pc = "awaiting"
    /\ LET out == analyzeImageForMetrics(call.image, call.hasReference, raw)
           bmi == calculateBMI(out.heightCm, out.weightKg)
           categoryInfo == getBmiCategory(bmi)
       IN IF out.kind = "throw" /\ call.issued < 2
          THEN /\ call' = [call EXCEPT !.issued = call.issued + 1]
               /\ requests' = requests + 1
               /\ UNCHANGED <<mode, result, error>>
          ELSE /\ call' = [call EXCEPT !.pc = "done", !.raw = raw, !.outcome = out]
               /\ UNCHANGED requests
               /\ IF out.kind = "return"
                  THEN /\ result' = <<[heightCm |-> out.heightCm, weightKg |-> out.weightKg,
                                       bmi |-> bmi, accuracy |-> out.accuracy,
                                       category |-> categoryInfo.category,
                                       color |-> categoryInfo.color]>>
                       /\ mode' = "result"
                       /\ UNCHANGED error
                  ELSE /\ error' = IF out.thrown.isError THEN out.thrown.message ELSE ErrUnknown
                       /\ mode' = "select"
                       /\ UNCHANGED result
    /\ UNCHANGED <<referenceChoice, analyses>>
    /\ UNCHANGED outsideApp

\* lines 32-40: the oracle call settles, analyzeImageForMetrics returns or
\* throws, and handleAnalysis continues after the await
oracleSettles(raw) ==
    /\ call.pc = "awaiting"
    /\ LET out == analyzeImageForMetrics(call.image, call.hasReference, raw)
           bmi == calculateBMI(out.heightCm, out.weightKg)
           categoryInfo == getBmiCategory(bmi)
       IN /\ call' = [call EXCEPT !.pc = "done", !.raw = raw, !.outcome = out]
          /\ IF out.kind = "return"
             THEN /\ result' = <<[heightCm |-> out.heightCm, weightKg |-> out.weightKg,
                                  bmi |-> bmi, accuracy |-> out.accuracy,
                                  category |-> categoryInfo.category,
                                  color |-> categoryInfo.color]>>
                  /\ mode' = "result"
                  /\ UNCHANGED error
             ELSE /\ error' = IF out.thrown.isError THEN out.thrown.message ELSE ErrUnknown
                  /\ mode' = "select"
                  /\ UNCHANGED result
    /\ UNCHANGED <<referenceChoice, analyses, requests>>
    /\ UNCHANGED outsideApp

\* handleReset of the App without the reference question, which leaves the
\* choice as it is
handleResetKeepsChoice ==
    /\ mode = "result"
    /\ result # <<>>
    /\ result' = <<>>
    /\ error' = <<>>
    /\ mode' = "select"
    /\ UNCHANGED <<referenceChoice, call, analyses, requests>>
    /\ UNCHANGED outsideApp

\* handleReset leaving the result in place
handleResetKeepsResult ==
    /\ mode = "result"
    /\ result # <<>>
    /\ error' = <<>>
    /\ referenceChoice' = "null"
    /\ mode' = "select"
    /\ UNCHANGED <<result, call, analyses, requests>>
    /\ UNCHANGED outsideApp

\* lines 43-48, the button of ResultDisplay (line 104)
handleReset ==
    /\ mode = "result"
    /\ result # <<>>
    /\ result' = <<>>
    /\ error' = <<>>
    /\ referenceChoice' = "null"
    /\ mode' = "select"
    /\ UNCHANGED <<call, analyses, requests>>
    /\ UNCHANGED outsideApp

\* lines 125-136: the banner is rendered when error is truthy and mode is
\* select (a message is truthy when it is not the empty string)
errorBanner == error # <<>> /\ mode = "select"

Next ==
    \/ \E choice \in {"yes", "no"} : handleReferenceChoice(choice)
    \/ backToReferenceQuestion
    \/ \E selectedMode \in {"upload", "camera"} : handleStart(selectedMode)
    \/ onBack
    \/ \E base64Image \in Images : handleAnalysis(base64Image)
    \/ \E raw \in OracleResults : oracleSettles(raw)
    \/ handleReset

Spec == Init /\ [][Next]_vars

----------------------------------------------------------------------------
\* src/utils/bmi.ts called on its own: calculateBMI on a height and a weight
\* and getBmiCategory on its result, or getBmiCategory on a given bmi

MaxHeightSteps == 12
MaxWeightSteps == 8
MaxBmiHundredths == 4500

BmiHeights == {-5, 0, 1} \cup {140 + 5 * i : i \in 0..MaxHeightSteps}
BmiWeights == {-3, 0, 1} \cup {40 + 10 * i : i \in 0..MaxWeightSteps}

InitBmi ==
    /\ mode = "select"
    /\ result = <<>>
    /\ error = <<>>
    /\ referenceChoice = "null"
    /\ call = IdleCall
    /\ analyses = 0
    /\ requests = 0
    /\ calls = IdleCalls
    /\ cameraInput = IdleCameraInput
    /\ imageInput = IdleImageInput
    /\ display = IdleDisplay
    /\ validation = IdleValidation
    /\ \/ \E h \in BmiHeights, w \in BmiWeights :
            calc = [IdleCalc EXCEPT !.pc = "ready", !.from = "arguments",
                                    !.heightCm = h, !.weightKg = w]
       \/ \E n \in 0..MaxBmiHundredths :
            calc = [IdleCalc EXCEPT !.pc = "computed", !.from = "bmi",
                                    !.bmi = Frac(n, 100)]

\* bmi.ts lines 4-10
evalCalculateBMI ==
    /\ calc.pc = "ready"
    /\ calc' = [calc EXCEPT !.pc = "computed",
                            !.bmi = calculateBMI(calc.heightCm, calc.weightKg)]
    /\ UNCHANGED <<mode, result, error, referenceChoice, call, analyses, requests, calls,
                 cameraInput, imageInput, display, validation>>

\* bmi.ts lines 12-23
evalGetBmiCategory ==
    /\ calc.pc = "computed"
    /\ calc' = [calc EXCEPT !.pc = "categorized",
                            !.category = getBmiCategory(calc.bmi).category,
                            !.color = getBmiCategory(calc.bmi).color]
    /\ UNCHANGED <<mode, result, error, referenceChoice, call, analyses, requests, calls,
                 cameraInput, imageInput, display, validation>>

NextBmi ==
    \/ evalCalculateBMI
    \/ evalGetBmiCategory

SpecBmi == InitBmi /\ [][NextBmi]_vars

----------------------------------------------------------------------------
\* src/services/geminiService.ts called by two callers at once: each
\* invocation runs up to its await, and continues when its own oracle call
\* has settled

\* The oracle results the two invocations draw from
ConcurrentResults ==
    {r \in OracleResults :
        r.kind = "object" =>
            /\ r.data.analysisSuccess \in {Bool(TRUE), Bool(FALSE)}
            /\ r.data.heightCm \in {Num(0), Num(175)}
            /\ r.data.weightKg = Num(70)
            /\ r.data.accuracy \in {Str("low"), Undefined}
            /\ r.data.reason \in {Undefined, Str("no_person_detected"), Str("image_unclear")}}

InitConcurrent ==
    /\ mode = "select"
    /\ result = <<>>
    /\ error = <<>>
    /\ referenceChoice = "null"
    /\ call = IdleCall
    /\ analyses = 0
    /\ requests = 0
    /\ calls = IdleCalls
    /\ calc = IdleCalc
    /\ cameraInput = IdleCameraInput
    /\ imageInput = IdleImageInput
    /\ display = IdleDisplay
    /\ validation = IdleValidation

\* geminiService.ts lines 40-77: the invocation up to the await
invoke(i, base64Image, hasReference) ==
    /\ calls[i].pc = "idle"
    /\ calls' = [calls EXCEPT ![i] =
                    [pc |-> "awaiting", image |-> base64Image,
                     hasReference |-> hasReference, issued |-> 1,
                     request |-> Request(base64Image, hasReference),
                     raw |-> NoRaw, outcome |-> NoOutcome]]
    /\ UNCHANGED <<mode, result, error, referenceChoice, call, analyses, requests, calc,
                 cameraInput, imageInput, display, validation>>

\* The continuation answering with the outcome of an invocation that has
\* already settled, if there is one
settleCached(i, raw) ==
    /\ calls[i].pc = "awaiting"
    /\ calls' = [calls EXCEPT ![i] =
                    [@ EXCEPT !.pc = "done", !.raw = raw,
                              !.outcome =
                                  IF \E j \in Callers : calls[j].pc = "done"
                                  THEN calls[CHOOSE j \in Callers : calls[j].pc = "done"].outcome
                                  ELSE analyzeImageForMetrics(@.image, @.hasReference, raw)]]
    /\ UNCHANGED <<mode, result, error, referenceChoice, call, analyses, requests, calc,
                 cameraInput, imageInput, display, validation>>

\* geminiService.ts lines 79-115: the continuation of invocation i after its
\* await, on what its own oracle call produced
settle(i, raw) ==
    /\ calls[i].pc = "awaiting"
    /\ calls' = [calls EXCEPT ![i] =
                    [@ EXCEPT !.pc = "done", !.raw = raw,
                              !.outcome = analyzeImageForMetrics(@.image, @.hasReference, raw)]]
    /\ UNCHANGED <<mode, result, error, referenceChoice, call, analyses, requests, calc,
                 cameraInput, imageInput, display, validation>>

NextConcurrent ==
    \/ \E i \in Callers, base64Image \in Images, hasReference \in BOOLEAN :
          invoke(i, base64Image, hasReference)
    \/ \E i \in Callers, raw \in ConcurrentResults : settle(i, raw)

SpecConcurrent == InitConcurrent /\ [][NextConcurrent]_vars

----------------------------------------------------------------------------
\* src/components/CameraInput.tsx, CameraInput on its own.  The file holds
\* two versions of the component: the first (lines 9-196) repeats a refused
\* getUserMedia request with fallback constraints, the second (lines
\* 205-365) makes one request.  A click is taken with the render and the
\* effect that follow it.

MaxCaptures == 2

\* What getUserMedia rejects with: whether it is a DOMException, and its name
CameraError(isDom, name) == [dom |-> isDom, name |-> name]
NoCameraError == CameraError(FALSE, "")

ConstraintErrorNames == {"OverconstrainedError", "ConstraintNotSatisfiedError"}

\* DOMExceptions of getUserMedia; OverconstrainedError as the browsers give
\* it where the interface does not inherit from DOMException; and the
\* TypeError of navigator.mediaDevices being undefined
GetUserMediaErrors ==
    {CameraError(TRUE, n) :
        n \in {"NotFoundError", "NotAllowedError", "OverconstrainedError",
               "ConstraintNotSatisfiedError", "NotReadableError", "AbortError"}}
      \cup {CameraError(FALSE, "OverconstrainedError"), CameraError(FALSE, "TypeError")}

\* A settled getUserMedia request: a stream, or a rejection
GetUserMediaResults ==
    {[ok |-> TRUE, err |-> NoCameraError]}
      \cup {[ok |-> FALSE, err |-> e] : e \in GetUserMediaErrors}

CamErrUnknown == "An unknown camera error occurred. Please ensure your camera is not in use by another application and try again."
CamErrNotFound == "No camera found on your device. Please ensure a camera is connected and enabled."
CamErrDenied == "Camera access was denied. To use this feature, please grant camera permissions in your browser settings."
CamErrUnsupported == "Your device's camera does not support the required settings."
CamErrInUse == "Your camera might be in use by another application. Please close it and try again."

\* lines 44-69 (248-273): the message handleError chooses
errorMessage(err) ==
    IF err.dom
    THEN CASE err.name \in {"NotFoundError", "DevicesNotFoundError"} -> CamErrNotFound
           [] err.name \in {"NotAllowedError", "PermissionDeniedError"} -> CamErrDenied
           [] err.name \in {"OverconstrainedError", "ConstraintNotSatisfiedError"} -> CamErrUnsupported
           [] err.name \in {"NotReadableError", "TrackStartError"} -> CamErrInUse
           [] OTHER -> CamErrUnknown
    ELSE CamErrUnknown

\* One invocation of startCamera: requests counts its getUserMedia requests,
\* first and last are what the first and the last of them were rejected
\* with, outcome is "stream" or "error" once it has finished
StartRecord(pc, n, first, last, outcome) ==
    [pc |-> pc, requests |-> n, first |-> first, last |-> last, outcome |-> outcome]

\* lines 10-15: the component after its first render, before its effect.
\* streamRef 0 is null, live the streams acquired whose tracks are not
\* stopped, srcObject and readyState those of the video element.
MountedCameraInput(version) ==
    [version |-> version, mounted |-> TRUE, streamRef |-> 0, live |-> {},
     acquired |-> 0, error |-> "", capturedImage |-> "",
     isCameraInitializing |-> TRUE, srcObject |-> 0, readyState |-> 0,
     starts |-> <<>>, captures |-> 0, analyzed |-> ""]

\* lines 19-24
stopStream(c) ==
    IF c.streamRef # 0
    THEN [c EXCEPT !.live = @ \ {c.streamRef}, !.streamRef = 0]
    ELSE c

\* lines 26-29 and 79 (222-236): startCamera up to its first await
startCamera(c) ==
    LET stopped == stopStream(c)
    IN [stopped EXCEPT !.error = "", !.isCameraInitializing = TRUE,
                       !.starts = Append(@, StartRecord("first", 1, NoCameraError,
                                                        NoCameraError, "none"))]

\* The effect that only starts the camera, and stops no stream
useEffectStartOnly(c) ==
    IF c.capturedImage = "" THEN startCamera(c) ELSE c

\* lines 18-107: the cleanup of the previous run of the effect, then its body
useEffect(c) ==
    LET cleaned == stopStream(c)
    IN IF cleaned.capturedImage = "" THEN startCamera(cleaned) ELSE stopStream(cleaned)

\* videoRef.current: the video element is rendered while mounted without
\* error (lines 152-170)
videoRef(c) == c.mounted /\ c.error = ""

\* lines 31-41 (237-246): a state setter of an unmounted component does
\* nothing
setStream(c) ==
    LET mediaStream == c.acquired + 1
        held == [c EXCEPT !.acquired = mediaStream, !.live = @ \cup {mediaStream},
                          !.streamRef = mediaStream]
    IN IF videoRef(c)
       THEN [held EXCEPT !.srcObject = mediaStream, !.readyState = 0]
       ELSE IF c.mounted THEN [held EXCEPT !.isCameraInitializing = FALSE] ELSE held

\* lines 43-72 (248-276)
handleError(c, err) ==
    IF c.mounted
    THEN [c EXCEPT !.error = errorMessage(err), !.isCameraInitializing = FALSE]
    ELSE c

\* line 83: the test that leads to the fallback request
isConstraintError(err) == err.dom /\ err.name \in ConstraintErrorNames

\* The unmount of the component: React runs the cleanup of the effect
unmount(c) == [stopStream(c) EXCEPT !.mounted = FALSE]

InitCamera ==
    /\ AppInit
    /\ calls = IdleCalls
    /\ calc = IdleCalc
    /\ imageInput = IdleImageInput
    /\ display = IdleDisplay
    /\ validation = IdleValidation
    /\ \E version \in {"fallback", "single"} :
          cameraInput = useEffect(MountedCameraInput(version))

\* lines 79-96 (236-277): the first getUserMedia request of invocation i
\* settles and startCamera continues
firstSettles(i, res) ==
    /\ i \in 1..Len(cameraInput.starts)
    /\ cameraInput.starts[i].pc = "first"
    /\ cameraInput' =
          IF res.ok
          THEN [setStream(cameraInput) EXCEPT
                   !.starts[i] = StartRecord("done", 1, NoCameraError, NoCameraError, "stream")]
          ELSE IF cameraInput.version = "fallback" /\ isConstraintError(res.err)
          THEN [cameraInput EXCEPT
                   !.starts[i] = StartRecord("fallback", 2, res.err, res.err, "none")]
          ELSE [handleError(cameraInput, res.err) EXCEPT
                   !.starts[i] = StartRecord("done", 1, res.err, res.err, "error")]
    /\ UNCHANGED <<appVars, calls, calc, imageInput, display, validation>>

\* lines 85-91: the fallback request of invocation i settles
fallbackSettles(i, res) ==
    /\ i \in 1..Len(cameraInput.starts)
    /\ cameraInput.starts[i].pc = "fallback"
    /\ cameraInput' =
          IF res.ok
          THEN [setStream(cameraInput) EXCEPT
                   !.starts[i] = StartRecord("done", 2, @.first, NoCameraError, "stream")]
          ELSE [handleError(cameraInput, res.err) EXCEPT
                   !.starts[i] = StartRecord("done", 2, @.first, res.err, "error")]
    /\ UNCHANGED <<appVars, calls, calc, imageInput, display, validation>>

\* lines 35-37 (241-243): the video element has loaded data of the stream
onloadeddata ==
    /\ videoRef(cameraInput)
    /\ cameraInput.srcObject # 0
    /\ cameraInput.srcObject = cameraInput.streamRef
    /\ cameraInput.readyState < 2
    /\ cameraInput' = [cameraInput EXCEPT !.readyState = 2, !.isCameraInitializing = FALSE]
    /\ UNCHANGED <<appVars, calls, calc, imageInput, display, validation>>

\* lines 109-131 (290-302), behind the button of line 189 (358), which is
\* rendered without a captured image and disabled with an error or while
\* initializing
handleCapture(base64) ==
    /\ cameraInput.mounted
    /\ cameraInput.capturedImage = ""
    /\ cameraInput.error = "" /\ ~cameraInput.isCameraInitializing
    /\ cameraInput.captures < MaxCaptures
    /\ IF /\ videoRef(cameraInput)
          /\ cameraInput.version = "fallback" => cameraInput.streamRef # 0
          /\ cameraInput.readyState >= 2
       THEN cameraInput' = useEffect([cameraInput EXCEPT !.capturedImage = base64,
                                                         !.captures = @ + 1])
       ELSE UNCHANGED cameraInput
    /\ UNCHANGED <<appVars, calls, calc, imageInput, display, validation>>

\* lines 133-136 (304-307), behind the Retake button
handleRetake ==
    /\ cameraInput.mounted
    /\ cameraInput.capturedImage # ""
    /\ cameraInput' = useEffect([cameraInput EXCEPT !.capturedImage = "",
                                                    !.isCameraInitializing = TRUE])
    /\ UNCHANGED <<appVars, calls, calc, imageInput, display, validation>>

\* lines 138-142 (309-313): onAnalyze is App's handleAnalysis, which leaves
\* camera mode, so that the component unmounts
handleAnalyze ==
    /\ cameraInput.mounted
    /\ cameraInput.capturedImage # ""
    /\ cameraInput' = [unmount(cameraInput) EXCEPT !.analyzed = cameraInput.capturedImage]
    /\ UNCHANGED <<appVars, calls, calc, imageInput, display, validation>>

\* line 146 (317): onBack is App's setMode('select'), and the component
\* unmounts
cameraOnBack ==
    /\ cameraInput.mounted
    /\ cameraInput' = unmount(cameraInput)
    /\ UNCHANGED <<appVars, calls, calc, imageInput, display, validation>>

NextCamera ==
    \/ \E i \in 1..(MaxCaptures + 1), res \in GetUserMediaResults : firstSettles(i, res)
    \/ \E i \in 1..(MaxCaptures + 1), res \in GetUserMediaResults : fallbackSettles(i, res)
    \/ onloadeddata
    \/ \E base64 \in Images : handleCapture(base64)
    \/ handleRetake
    \/ handleAnalyze
    \/ cameraOnBack

SpecCamera == InitCamera /\ [][NextCamera]_vars

----------------------------------------------------------------------------
\* src/App.tsx lines 151-274, ImageInput on its own

MaxSelections == 3

\* A File: its MIME type as the sequence of its parts, the base64 encoding
\* of its bytes ("" for a file without bytes), and whether the FileReader
\* can read it
File(name, type, bytes, readable) ==
    [name |-> name, type |-> type, bytes |-> bytes, readable |-> readable]

NoFile == File("", <<>>, "", FALSE)

Files ==
    {File("a.png", <<"image/", "png">>, "img1", TRUE),
     File("b.jpg", <<"image/", "jpeg">>, "img2", TRUE),
     File("c.txt", <<"text/", "plain">>, "txt1", TRUE),
     File("d", <<>>, "bin1", TRUE),
     File("e.png", <<"image/", "png">>, "img3", FALSE),
     File("f.png", <<"image/", "png">>, "", TRUE)}

ErrNotImage == "Please select an image file."
ErrReadFailed == "Failed to read the image file."

\* FileReader.readAsDataURL: the data URI as its parts around the comma; a
\* file without bytes gives "data:"
readAsDataURL(file) ==
    IF file.bytes = ""
    THEN <<"data:">>
    ELSE <<"data:" \o file.type[1] \o file.type[2] \o ";base64", file.bytes>>

\* line 189: dataUri.split(',')[1], undefined ("") without a second part
base64Of(dataUri) == IF Len(dataUri) >= 2 THEN dataUri[2] ELSE ""

\* lines 175-177: the component after its first render.  image and error ""
\* are null; reads are the pending and finished calls of fileToDataUri;
\* selected is the argument of the last handleFileSelect, accepted the files
\* that passed its type test.
MountedImageInput ==
    [mounted |-> TRUE, image |-> "", error |-> "", reads |-> <<>>,
     selections |-> 0, selected |-> NoFile, accepted |-> {}, analyzed |-> ""]

InitImageInput ==
    /\ AppInit
    /\ calls = IdleCalls
    /\ calc = IdleCalc
    /\ cameraInput = IdleCameraInput
    /\ display = IdleDisplay
    /\ validation = IdleValidation
    /\ imageInput = MountedImageInput

\* handleFileSelect without the test of the file type
handleFileSelectAnyType(file) ==
    /\ imageInput.mounted
    /\ imageInput.selections < MaxSelections
    /\ LET cleared == [imageInput EXCEPT !.error = "", !.selections = @ + 1,
                                         !.selected = file]
       IN imageInput' =
             IF file = NoFile
             THEN cleared
             ELSE [cleared EXCEPT !.reads = Append(@, [file |-> file, pc |-> "reading"]),
                                  !.accepted = @ \cup {file.name}]
    /\ UNCHANGED <<appVars, calls, calc, cameraInput, display, validation>>

\* lines 180-188: handleFileSelect up to its await, called by the file
\* input (line 268), by a drop (line 227) and by a paste (line 203)
handleFileSelect(file) ==
    /\ imageInput.mounted
    /\ imageInput.selections < MaxSelections
    /\ LET cleared == [imageInput EXCEPT !.error = "", !.selections = @ + 1,
                                         !.selected = file]
       IN imageInput' =
             IF file = NoFile
             THEN cleared
             ELSE IF ~startsWith(file.type, <<"image/">>)
             THEN [cleared EXCEPT !.error = ErrNotImage]
             ELSE [cleared EXCEPT !.reads = Append(@, [file |-> file, pc |-> "reading"]),
                                  !.accepted = @ \cup {file.name}]
    /\ UNCHANGED <<appVars, calls, calc, cameraInput, display, validation>>

\* lines 159-172 and 188-193: the FileReader of read i finishes and
\* handleFileSelect continues; a state setter of an unmounted component does
\* nothing
fileReaderSettles(i) ==
    /\ i \in 1..Len(imageInput.reads)
    /\ imageInput.reads[i].pc = "reading"
    /\ LET file == imageInput.reads[i].file
           done == [imageInput EXCEPT !.reads[i].pc = "done"]
       IN imageInput' =
             IF ~imageInput.mounted THEN done
             ELSE IF file.readable
             THEN [done EXCEPT !.image = base64Of(readAsDataURL(file))]
             ELSE [done EXCEPT !.error = ErrReadFailed]
    /\ UNCHANGED <<appVars, calls, calc, cameraInput, display, validation>>

\* line 249: the Change button, rendered with an image
changeImage ==
    /\ imageInput.mounted
    /\ imageInput.image # ""
    /\ imageInput' = [imageInput EXCEPT !.image = ""]
    /\ UNCHANGED <<appVars, calls, calc, cameraInput, display, validation>>

\* lines 231-235, behind the Analyze button, rendered with an image (line
\* 252): onAnalyze is App's handleAnalysis, which leaves upload mode, so that
\* the component unmounts
handleAnalyzeClick ==
    /\ imageInput.mounted
    /\ imageInput.image # ""
    /\ imageInput' = [imageInput EXCEPT !.analyzed = imageInput.image, !.mounted = FALSE]
    /\ UNCHANGED <<appVars, calls, calc, cameraInput, display, validation>>

\* line 239: onBack is App's setMode('select'), and the component unmounts
imageOnBack ==
    /\ imageInput.mounted
    /\ imageInput' = [imageInput EXCEPT !.mounted = FALSE]
    /\ UNCHANGED <<appVars, calls, calc, cameraInput, display, validation>>

NextImageInput ==
    \/ \E file \in Files \cup {NoFile} : handleFileSelect(file)
    \/ \E i \in 1..MaxSelections : fileReaderSettles(i)
    \/ changeImage
    \/ handleAnalyzeClick
    \/ imageOnBack

SpecImageInput == InitImageInput /\ [][NextImageInput]_vars

----------------------------------------------------------------------------
\* src/components/ResultDisplay.tsx and its version with the BMI bar
\* (src/unnamed/part_002): what a render computes from the result it is given

MaxDisplayHeightCm == 220

\* x <= y for fractions with positive denominators
FracLE(x, y) == x.num * y.den <= y.num * x.den

\* Math.min and Math.max
FracMin(x, y) == IF FracLE(x, y) THEN x ELSE y
FracMax(x, y) == IF FracLE(x, y) THEN y ELSE x

\* line 21 (part_002 line 22): Math.floor(heightCm / 30.48)
heightFeet(heightCm) == (heightCm * 100) \div 3048

\* line 22 (part_002 line 23): Math.round((heightCm / 2.54) % 12).  The
\* height in inches is 50 * heightCm / 127, its remainder by 12 is
\* ((50 * heightCm) % 1524) / 127, and Math.round(x) is floor(x + 1/2).
heightInches(heightCm) == (2 * ((50 * heightCm) % 1524) + 127) \div 254

\* part_002 lines 34-44: the position before it is clamped
markerPosition(bmi) ==
    IF FracLess(bmi, 185, 10)
    THEN Frac(bmi.num * 250, bmi.den * 185)
    ELSE IF FracLess(bmi, 25, 1)
    THEN Frac(25 * 65 * bmi.den + (10 * bmi.num - 185 * bmi.den) * 25, 65 * bmi.den)
    ELSE IF FracLess(bmi, 30, 1)
    THEN Frac(50 * bmi.den + (bmi.num - 25 * bmi.den) * 5, bmi.den)
    ELSE LET capped == FracMin(Frac(bmi.num - 30 * bmi.den, 10 * bmi.den), Frac(1, 1))
         IN Frac(75 * capped.den + 25 * capped.num, capped.den)

\* bmiMarkerPosition without the clamp of line 46
bmiMarkerPositionUnclamped(bmi) == markerPosition(bmi)

\* part_002 lines 33-47
bmiMarkerPosition(bmi) ==
    FracMax(Frac(2, 1), FracMin(markerPosition(bmi), Frac(98, 1)))

\* The props of a render, and what it computed.  A render of a height shows
\* feet and inches; a render of a bmi shows the marker, and is followed by a
\* render of the next bmi of the grid.
IdleRender ==
    [pc |-> "idle", from |-> "", heightCm |-> 0, heightFeet |-> 0, heightInches |-> 0,
     bmi |-> Frac(0, 1), category |-> "", position |-> Frac(0, 1),
     bmiNext |-> Frac(0, 1), positionNext |-> Frac(0, 1)]

\* The result handed to ResultDisplay carries the category App computed
\* with getBmiCategory (App.tsx lines 33-35)
InitDisplay ==
    /\ AppInit
    /\ calls = IdleCalls
    /\ calc = IdleCalc
    /\ cameraInput = IdleCameraInput
    /\ imageInput = IdleImageInput
    /\ validation = IdleValidation
    /\ \/ \E h \in 1..MaxDisplayHeightCm :
            display = [IdleRender EXCEPT !.pc = "props", !.from = "height", !.heightCm = h]
       \/ \E n \in 0..MaxBmiHundredths :
            display = [IdleRender EXCEPT !.pc = "props", !.from = "bmi",
                                         !.bmi = Frac(n, 100),
                                         !.category = getBmiCategory(Frac(n, 100)).category,
                                         !.bmiNext = Frac(n + 1, 100)]

\* lines 21-22 (part_002 lines 22-23)
renderHeight ==
    /\ display.pc = "props"
    /\ display.from = "height"
    /\ display' = [display EXCEPT !.pc = "rendered",
                                  !.heightFeet = heightFeet(display.heightCm),
                                  !.heightInches = heightInches(display.heightCm)]
    /\ UNCHANGED <<appVars, calls, calc, cameraInput, imageInput, validation>>

\* part_002 lines 33-47, called by the render of the bar
renderMarker ==
    /\ display.pc = "props"
    /\ display.from = "bmi"
    /\ display' = [display EXCEPT !.pc = "rendered",
                                  !.position = bmiMarkerPosition(display.bmi),
                                  !.positionNext = bmiMarkerPosition(display.bmiNext)]
    /\ UNCHANGED <<appVars, calls, calc, cameraInput, imageInput, validation>>

NextDisplay ==
    \/ renderHeight
    \/ renderMarker

SpecDisplay == InitDisplay /\ [][NextDisplay]_vars

----------------------------------------------------------------------------
\* The two versions of analyzeImageForMetrics applied to one result of the
\* oracle call: src/services/geminiService.ts, and the earlier
\* src/unnamed/part_000, which takes no hasReference

\* The earlier version without the test of accuracy in its type check
analyzeImageForMetricsEarlierNoAccuracy(base64Image, raw) ==
    LET d == raw.data
        r == CASE raw.kind = "reject" -> Throw(raw.thrown, "generateContent")
               [] raw.kind = "notext" -> Throw(Thrown(TRUE, ErrTrimOfUndefined), "trim")
               [] raw.kind = "badjson" -> Throw(Thrown(TRUE, ErrJsonSyntax), "JSON.parse")
               [] raw.kind = "null" -> Throw(Thrown(TRUE, ErrPropertyOfNull), "typecheck")
               [] OTHER ->
                    IF \/ typeof(d.analysisSuccess) # "boolean"
                       \/ typeof(d.heightCm) # "number"
                       \/ typeof(d.weightKg) # "number"
                    THEN Throw(Thrown(TRUE, ErrInvalidTypes), "typecheck")
                    ELSE IF ~d.analysisSuccess.b
                    THEN Throw(Thrown(TRUE,
                                 CASE d.reason = Str("no_person_detected") -> ErrNoPerson
                                   [] d.reason = Str("child_detected") -> ErrChild
                                   [] d.reason = Str("image_unclear") -> ErrUnclear
                                   [] OTHER -> ErrUnable), "reason")
                    ELSE IF d.heightCm.n <= 0 \/ d.weightKg.n <= 0
                    THEN Throw(Thrown(TRUE, ErrInvalidMetrics), "metrics")
                    ELSE Return(d.heightCm.n, d.weightKg.n, d.accuracy.s)
    IN IF r.kind = "return" THEN r
       ELSE IF /\ r.raised.isError
               /\ \/ startsWith(r.raised.message, <<"The", "AI">>)
                  \/ startsWith(r.raised.message, <<"This", "analysis">>)
       THEN r
       ELSE [r EXCEPT !.thrown = Thrown(TRUE, ErrConnection)]

\* part_000 lines 40-124: the try block (lines 77-117), with the type check
\* of line 90, the switch of lines 94-105, the metric check of line 108 and
\* the return of lines 112-116, and the catch block (lines 118-123)
analyzeImageForMetricsEarlier(base64Image, raw) ==
    LET d == raw.data
        r == CASE raw.kind = "reject" -> Throw(raw.thrown, "generateContent")
               [] raw.kind = "notext" -> Throw(Thrown(TRUE, ErrTrimOfUndefined), "trim")
               [] raw.kind = "badjson" -> Throw(Thrown(TRUE, ErrJsonSyntax), "JSON.parse")
               [] raw.kind = "null" -> Throw(Thrown(TRUE, ErrPropertyOfNull), "typecheck")
               [] OTHER ->
                    IF \/ typeof(d.analysisSuccess) # "boolean"
                       \/ typeof(d.heightCm) # "number"
                       \/ typeof(d.weightKg) # "number"
                       \/ typeof(d.accuracy) # "string"
                    THEN Throw(Thrown(TRUE, ErrInvalidTypes), "typecheck")
                    ELSE IF ~d.analysisSuccess.b
                    THEN Throw(Thrown(TRUE,
                                 CASE d.reason = Str("no_person_detected") -> ErrNoPerson
                                   [] d.reason = Str("child_detected") -> ErrChild
                                   [] d.reason = Str("image_unclear") -> ErrUnclear
                                   [] OTHER -> ErrUnable), "reason")
                    ELSE IF d.heightCm.n <= 0 \/ d.weightKg.n <= 0
                    THEN Throw(Thrown(TRUE, ErrInvalidMetrics), "metrics")
                    ELSE Return(d.heightCm.n, d.weightKg.n, d.accuracy.s)
    IN IF r.kind = "return" THEN r
       ELSE IF /\ r.raised.isError
               /\ \/ startsWith(r.raised.message, <<"The", "AI">>)
                  \/ startsWith(r.raised.message, <<"This", "analysis">>)
       THEN r
       ELSE [r EXCEPT !.thrown = Thrown(TRUE, ErrConnection)]

\* One result of the oracle call, and what each version made of it
InitVersions ==
    /\ AppInit
    /\ calls = IdleCalls
    /\ calc = IdleCalc
    /\ cameraInput = IdleCameraInput
    /\ imageInput = IdleImageInput
    /\ display = IdleDisplay
    /\ \E base64Image \in Images, raw \in OracleResults :
          validation = [pc |-> "given", image |-> base64Image, raw |-> raw,
                        hasReference |-> FALSE,
                        current |-> NoOutcome, earlier |-> NoOutcome]

\* geminiService.ts lines 40-116
applyCurrent(hasReference) ==
    /\ validation.pc = "given"
    /\ validation.current = NoOutcome
    /\ validation' =
          [validation EXCEPT
              !.hasReference = hasReference,
              !.current = analyzeImageForMetrics(validation.image, hasReference,
                                                 validation.raw)]
    /\ UNCHANGED <<appVars, calls, calc, cameraInput, imageInput, display>>

\* part_000 lines 40-124
applyEarlier ==
    /\ validation.pc = "given"
    /\ validation.earlier = NoOutcome
    /\ validation' =
          [validation EXCEPT
              !.earlier = analyzeImageForMetricsEarlier(validation.image, validation.raw)]
    /\ UNCHANGED <<appVars, calls, calc, cameraInput, imageInput, display>>

NextVersions ==
    \/ \E hasReference \in BOOLEAN : applyCurrent(hasReference)
    \/ applyEarlier

SpecVersions == InitVersions /\ [][NextVersions]_vars

----------------------------------------------------------------------------
\* Vocabulary of the properties

Done == call.pc = "done"
IsObject == call.raw.kind = "object"
data == call.raw.data
out == call.outcome

Failed(msg) == out.kind = "throw" /\ out.thrown = Thrown(TRUE, msg)

\* Every required field is present with its type
WellTyped(d) ==
    /\ d.analysisSuccess.t = "boolean"
    /\ d.heightCm.t = "number"
    /\ d.weightKg.t = "number"
    /\ d.accuracy.t = "string"

AccuracyLevels == {"high", "medium", "low"}
KnownReasons == {Str("no_person_detected"), Str("child_detected"), Str("image_unclear")}
ReasonSpecificErrors == {ErrNoPerson, ErrChild, ErrUnclear}

\* The first check of the list of the specification that raw fails
FirstFailingCheck(raw) ==
    IF raw.kind \in {"notext", "badjson"} THEN "parse"
    ELSE IF raw.kind = "null" \/ ~WellTyped(raw.data) THEN "shape"
    ELSE IF raw.data.analysisSuccess.b = FALSE THEN "reason"
    ELSE IF raw.data.heightCm.n <= 0 \/ raw.data.weightKg.n <= 0 THEN "metrics"
    ELSE "none"

----------------------------------------------------------------------------
\* C1: the response checks are applied in the order parse, types of the
\* required fields, analysisSuccess=false, non-positive height or weight,
\* success; the statement that ends the try block is the one of the first
\* check the response fails, also when it fails several checks.
C1_CheckOrder ==
    (Done /\ call.raw.kind # "reject") =>
        LET first == FirstFailingCheck(call.raw)
        IN /\ first = "parse" => out.site \in {"trim", "JSON.parse"} /\ Failed(ErrConnection)
           /\ first = "shape" => out.site = "typecheck" /\ Failed(ErrConnection)
           /\ first = "reason" =>
                /\ out.site = "reason"
                /\ out.kind = "throw"
                /\ out.raised.message \in ReasonSpecificErrors \cup {ErrUnable}
                /\ out.thrown.message # ErrInvalidMetrics
           /\ first = "metrics" => out.site = "metrics" /\ Failed(ErrInvalidMetrics)
           /\ first = "none" => out.site = "return" /\ out.kind = "return"

\* C1 witness: a response with analysisSuccess=false and heightCm=0 was
\* decided by the analysisSuccess check.
C1_Witness ==
    /\ Done /\ IsObject /\ WellTyped(data)
    /\ data.analysisSuccess = Bool(FALSE)
    /\ data.heightCm = Num(0)
    /\ out.site = "reason"

\* C2 as stated: every valid OracleResponse of the data model (accuracy one
\* of high, medium, low, or absent) with analysisSuccess=true, heightCm>0 and
\* weightKg>0 is a success carrying exactly those values.
C2_Original ==
    (/\ Done /\ IsObject
     /\ data.analysisSuccess = Bool(TRUE)
     /\ data.heightCm.t = "number" /\ data.heightCm.n > 0
     /\ data.weightKg.t = "number" /\ data.weightKg.n > 0
     /\ data.accuracy \in {Str(a) : a \in AccuracyLevels} \cup {Undefined})
    => /\ out.kind = "return"
       /\ out.heightCm = data.heightCm.n
       /\ out.weightKg = data.weightKg.n

\* C2 amended: with accuracy one of high, medium, low the response is a
\* success carrying exactly its heightCm and weightKg (and its accuracy);
\* with accuracy absent it is the check-your-connection failure.
C2_PassThrough ==
    (/\ Done /\ IsObject
     /\ data.analysisSuccess = Bool(TRUE)
     /\ data.heightCm.t = "number" /\ data.heightCm.n > 0
     /\ data.weightKg.t = "number" /\ data.weightKg.n > 0)
    => /\ data.accuracy \in {Str(a) : a \in AccuracyLevels} =>
            /\ out.kind = "return"
            /\ out.heightCm = data.heightCm.n
            /\ out.weightKg = data.weightKg.n
            /\ out.accuracy = data.accuracy.s
       /\ data.accuracy = Undefined => Failed(ErrConnection)

\* C2 witness: a success carrying the height and weight of the response.
C2_Witness ==
    /\ Done /\ IsObject
    /\ data.analysisSuccess = Bool(TRUE)
    /\ data.heightCm = Num(175) /\ data.weightKg = Num(70)
    /\ data.accuracy = Str("medium")
    /\ out.kind = "return" /\ out.heightCm = 175 /\ out.weightKg = 70

\* C3 as stated (for responses whose required fields are well typed): with
\* analysisSuccess=false the caller gets the error of the reason, whatever
\* heightCm and weightKg are, and the three errors are pairwise distinct.
C3_Claim ==
    (Done /\ IsObject /\ WellTyped(data) /\ data.analysisSuccess = Bool(FALSE))
    => /\ data.reason = Str("no_person_detected") => Failed(ErrNoPerson)
       /\ data.reason = Str("child_detected") => Failed(ErrChild)
       /\ data.reason = Str("image_unclear") => Failed(ErrUnclear)
       /\ Cardinality(ReasonSpecificErrors) = 3

\* The failure payload of the wire shape: no accuracy field
DocumentedFailurePayload ==
    [analysisSuccess |-> Bool(FALSE), heightCm |-> Num(0), weightKg |-> Num(0),
     accuracy |-> Undefined, reason |-> Str("no_person_detected")]

\* C4 as stated: the documented failure payload, which has no accuracy
\* field, is reported as the no-person-detected error.
C4_Original ==
    (Done /\ IsObject /\ data = DocumentedFailurePayload) => Failed(ErrNoPerson)

\* C4 amended: the documented failure payload, which has no accuracy field,
\* is reported as the check-your-connection failure; the same payload with an
\* accuracy string is reported as the no-person-detected error.
C4_FailurePayload ==
    /\ (Done /\ IsObject /\ data = DocumentedFailurePayload) => Failed(ErrConnection)
    /\ (/\ Done /\ IsObject
        /\ data.accuracy.t = "string"
        /\ data = [DocumentedFailurePayload EXCEPT !.accuracy = data.accuracy])
       => Failed(ErrNoPerson)

\* C4 witness: the documented failure payload was answered.
C4_Witness == Done /\ IsObject /\ data = DocumentedFailurePayload /\ out.kind = "throw"

\* C5 as stated: every response with analysisSuccess=true and heightCm<=0
\* or weightKg<=0 fails with the invalid-metric-values error.
C5_Original ==
    (/\ Done /\ IsObject
     /\ data.analysisSuccess = Bool(TRUE)
     /\ \/ data.heightCm.t = "number" /\ data.heightCm.n <= 0
        \/ data.weightKg.t = "number" /\ data.weightKg.n <= 0)
    => Failed(ErrInvalidMetrics)

\* C5 amended: every response whose required fields are well typed
\* (heightCm and weightKg numbers, accuracy a string), with
\* analysisSuccess=true and heightCm<=0 or weightKg<=0, fails with the
\* invalid-metric-values error; and no success carries a non-positive height
\* or weight.
C5_ImplausibleMetrics ==
    /\ (/\ Done /\ IsObject /\ WellTyped(data)
        /\ data.analysisSuccess = Bool(TRUE)
        /\ (data.heightCm.n <= 0 \/ data.weightKg.n <= 0))
       => Failed(ErrInvalidMetrics)
    /\ (Done /\ out.kind = "return") => (out.heightCm > 0 /\ out.weightKg > 0)

\* C5 witness: analysisSuccess=true with heightCm=0 and weightKg=70 failed
\* with the invalid-metric-values error.
C5_Witness ==
    /\ Done /\ IsObject /\ WellTyped(data)
    /\ data.analysisSuccess = Bool(TRUE)
    /\ data.heightCm = Num(0) /\ data.weightKg = Num(70)
    /\ Failed(ErrInvalidMetrics)

\* C6: a response in which a required field (analysisSuccess, heightCm,
\* weightKg, accuracy) is missing or wrongly typed fails the type check: the
\* try block raises the invalid-data-types error, the caller gets the
\* check-your-connection failure, never a success and never a
\* reason-specific error, whatever the other fields hold.
C6_InvalidShape ==
    (Done /\ IsObject /\ ~WellTyped(data))
    => /\ out.kind = "throw"
       /\ out.site = "typecheck"
       /\ out.raised = Thrown(TRUE, ErrInvalidTypes)
       /\ Failed(ErrConnection)
       /\ out.thrown.message \notin ReasonSpecificErrors

\* C6 witness: only heightCm is missing, in a response that otherwise says
\* no_person_detected.
C6_Witness ==
    /\ Done /\ IsObject
    /\ data.heightCm = Undefined
    /\ data.analysisSuccess = Bool(FALSE)
    /\ data.weightKg.t = "number" /\ data.accuracy.t = "string"
    /\ data.reason = Str("no_person_detected")
    /\ Failed(ErrConnection)

\* C7 as stated: every response with analysisSuccess=false whose reason is
\* absent or none of the three known reasons fails with the generic
\* unable-to-analyze error, which is none of the reason-specific errors.
C7_Original ==
    (/\ Done /\ IsObject
     /\ data.analysisSuccess = Bool(FALSE)
     /\ data.reason \notin KnownReasons)
    => /\ Failed(ErrUnable)
       /\ ErrUnable \notin ReasonSpecificErrors

\* C7 amended: every response whose required fields are well typed
\* (heightCm and weightKg numbers, accuracy a string), with
\* analysisSuccess=false and a reason that is absent or none of the three
\* known reasons (no_reference_object included), fails with the generic
\* unable-to-analyze error, which is none of the reason-specific errors.
C7_UnspecifiedFailure ==
    (/\ Done /\ IsObject /\ WellTyped(data)
     /\ data.analysisSuccess = Bool(FALSE)
     /\ data.reason \notin KnownReasons)
    => /\ Failed(ErrUnable)
       /\ ErrUnable \notin ReasonSpecificErrors

\* C7 witness: reason no_reference_object gave the generic error.
C7_Witness ==
    /\ Done /\ IsObject /\ WellTyped(data)
    /\ data.analysisSuccess = Bool(FALSE)
    /\ data.reason = Str("no_reference_object")
    /\ Failed(ErrUnable)

\* A well-typed response that the validator declines: analysisSuccess=false
\* or a non-positive height or weight
SemanticFailure(d) ==
    /\ WellTyped(d)
    /\ \/ d.analysisSuccess = Bool(FALSE)
       \/ d.heightCm.n <= 0
       \/ d.weightKg.n <= 0

\* C8 as stated: every error raised by the oracle call is reported as the
\* check-your-connection failure, and no semantic failure (no person, child,
\* image unclear, unspecified, invalid metric values) is reported as that.
C8_Claim ==
    /\ (Done /\ call.raw.kind = "reject") => Failed(ErrConnection)
    /\ (Done /\ IsObject /\ SemanticFailure(data)) => ~Failed(ErrConnection)

\* C9: every invocation of analyzeImageForMetrics issues exactly one oracle
\* request, whatever its outcome; the number of requests equals the number of
\* analyses started, a request is issued only by the step in which the user
\* starts an analysis from the upload or camera screen, and the step that
\* settles an analysis issues none.
C9_SingleRequest ==
    /\ [](call.pc \in {"awaiting", "done"} => call.issued = 1)
    /\ [](requests = analyses)
    /\ [][requests' # requests =>
            /\ mode \in {"upload", "camera"}
            /\ mode' = "loading"
            /\ requests' = requests + 1
            /\ analyses' = analyses + 1]_vars
    /\ [][call.pc = "awaiting" => requests' = requests]_vars

\* C9 witness: an analysis failed, the App is back on the select screen with
\* the error, and the invocation has issued one request.
C9_Witness ==
    /\ Done /\ out.kind = "throw"
    /\ mode = "select" /\ error # <<>>
    /\ call.issued = 1 /\ requests = analyses /\ requests = 1

\* C10 as stated: every result that App stores has accuracy high, medium or
\* low.
C10_Claim == result # <<>> => result[1].accuracy \in AccuracyLevels

----------------------------------------------------------------------------
\* The category and color of the bmi num/den (den > 0) by the thresholds
\* 18.5, 25 and 30, each interval closed below and open above
ReferenceCategory(num, den) ==
    IF 10 * num < 185 * den THEN <<"Underweight", "#3b82f6">>
    ELSE IF num < 25 * den THEN <<"Normal weight", "#22c55e">>
    ELSE IF num < 30 * den THEN <<"Overweight", "#f97316">>
    ELSE <<"Obese", "#ef4444">>

\* weightKg / (heightCm/100)^2 for positive arguments, as <<numerator,
\* denominator>> in lowest terms
ReferenceBmi(heightCm, weightKg) ==
    LET n == weightKg * 100 * 100
        d == heightCm * heightCm
    IN <<n \div GCD(n, d), d \div GCD(n, d)>>

\* C11: every result that App stores has heightCm>0 and weightKg>0, its bmi
\* is weightKg / (heightCm/100)^2 and not negative, its category and color are
\* those of that bmi, and its heightCm and weightKg are the values of the
\* oracle response of the analysis that produced it.
C11_StoredResult ==
    result # <<>> =>
        LET r == result[1]
        IN /\ r.heightCm > 0 /\ r.weightKg > 0
           /\ r.bmi.den > 0 /\ r.bmi.num >= 0
           /\ r.bmi.num * ReferenceBmi(r.heightCm, r.weightKg)[2]
                = ReferenceBmi(r.heightCm, r.weightKg)[1] * r.bmi.den
           /\ <<r.category, r.color>> = ReferenceCategory(r.bmi.num, r.bmi.den)
           /\ Done /\ IsObject /\ out.kind = "return"
           /\ data.heightCm = Num(r.heightCm)
           /\ data.weightKg = Num(r.weightKg)

\* C11 witness: a result of 175 cm and 100 kg is stored as Obese.
C11_Witness ==
    /\ mode = "result" /\ result # <<>>
    /\ result[1].heightCm = 175 /\ result[1].weightKg = 100
    /\ result[1].category = "Obese"

\* C12: calculateBMI returns a value for every height and weight: 0 when
\* heightCm<=0 or weightKg<=0, otherwise exactly weightKg / (heightCm/100)^2,
\* which is strictly positive; calculateBMI(175, 70) is 22.86 to two decimals.
C12_CalculateBMI ==
    (calc.from = "arguments" /\ calc.pc # "ready") =>
        LET h == calc.heightCm
            w == calc.weightKg
        IN /\ calc.bmi.den > 0
           /\ (h <= 0 \/ w <= 0) => calc.bmi.num = 0
           /\ (h > 0 /\ w > 0) =>
                /\ <<calc.bmi.num, calc.bmi.den>> = ReferenceBmi(h, w)
                /\ calc.bmi.num > 0
           /\ (h = 175 /\ w = 70) =>
                /\ 22855 * calc.bmi.den <= 1000 * calc.bmi.num
                /\ 1000 * calc.bmi.num < 22865 * calc.bmi.den

\* C12 witness: calculateBMI(175, 70) was evaluated, to 160/7.
C12_Witness ==
    /\ calc.from = "arguments" /\ calc.pc = "computed"
    /\ calc.heightCm = 175 /\ calc.weightKg = 70
    /\ calc.bmi.num = 160 /\ calc.bmi.den = 7

\* The boundary values of the specification, in hundredths, and their category
BoundaryCases ==
    {<<1849, "Underweight">>, <<1850, "Normal weight">>, <<2499, "Normal weight">>,
     <<2500, "Overweight">>, <<2999, "Overweight">>, <<3000, "Obese">>}

\* C13: getBmiCategory returns a category for every bmi >= 0: Underweight
\* below 18.5 (0 included), Normal weight from 18.5 to below 25, Overweight
\* from 25 to below 30, Obese from 30; 18.49, 18.5, 24.99, 25.0, 29.99, 30.0
\* give Underweight, Normal weight, Normal weight, Overweight, Overweight,
\* Obese; and each category comes with its one color.
C13_Categories ==
    calc.pc = "categorized" =>
        /\ <<calc.category, calc.color>> = ReferenceCategory(calc.bmi.num, calc.bmi.den)
        /\ calc.category \in {"Underweight", "Normal weight", "Overweight", "Obese"}
        /\ calc.bmi.num = 0 => calc.category = "Underweight"
        /\ \A c \in BoundaryCases :
              calc.bmi.num * 100 = c[1] * calc.bmi.den => calc.category = c[2]

\* C13 witness: 18.5 was categorized, as Normal weight.
C13_Witness ==
    /\ calc.pc = "categorized" /\ calc.from = "bmi"
    /\ calc.bmi.num * 10 = 185 * calc.bmi.den
    /\ calc.category = "Normal weight"

\* C14: for the same oracle response the outcome of analyzeImageForMetrics is
\* the one it would be with the other value of hasReference; and with
\* hasReference=false a response with analysisSuccess=true, accuracy low and
\* positive height and weight is a success.
C14_ReferenceIndependence ==
    Done =>
        /\ out = analyzeImageForMetrics(call.image, ~call.hasReference, call.raw)
        /\ (/\ IsObject /\ ~call.hasReference
            /\ data.analysisSuccess = Bool(TRUE)
            /\ data.accuracy = Str("low")
            /\ data.heightCm.t = "number" /\ data.heightCm.n > 0
            /\ data.weightKg.t = "number" /\ data.weightKg.n > 0)
           => out.kind = "return"

\* C14 witness: a call without reference object got accuracy low and
\* succeeded.
C14_Witness ==
    /\ Done /\ IsObject /\ ~call.hasReference
    /\ data.analysisSuccess = Bool(TRUE)
    /\ data.accuracy = Str("low")
    /\ out.kind = "return" /\ out.accuracy = "low"

Contains(text, sentence) == \E i \in 1..Len(text) : text[i] = sentence
ContainsAll(text, sentences) == \A j \in 1..Len(sentences) : Contains(text, sentences[j])
ContainsNone(text, sentences) == \A j \in 1..Len(sentences) : ~Contains(text, sentences[j])

Observed(o) == <<o.kind, o.heightCm, o.weightKg, o.accuracy, o.thrown>>

\* C17: of two invocations running at once, with their responses arriving
\* in any order, each ends with the outcome of its own oracle response: it is
\* the outcome of a call that got that response alone, two invocations that
\* got the same response observe the same outcome, and an invocation is not
\* touched by a step of the other one.
C17_Independent ==
    /\ [](\A i \in Callers :
            calls[i].pc = "done" =>
                calls[i].outcome
                  = analyzeImageForMetrics(calls[i].image, calls[i].hasReference, calls[i].raw))
    /\ [](\A i, j \in Callers :
            (calls[i].pc = "done" /\ calls[j].pc = "done" /\ calls[i].raw = calls[j].raw)
                => Observed(calls[i].outcome) = Observed(calls[j].outcome))
    /\ [][\A i \in Callers :
            (calls[i].pc = "done" \/ calls'[i].pc = calls[i].pc) => calls'[i] = calls[i]]_vars

\* C17 witness: both invocations have ended, one with a success and the
\* other with a failure.
C17_Witness ==
    /\ calls[1].pc = "done" /\ calls[2].pc = "done"
    /\ calls[1].outcome.kind = "throw"
    /\ calls[2].outcome.kind = "return"

\* C18: in the step in which analyzeImageForMetrics fails, App stores as
\* error the message of the Error it threw, goes to mode select, and leaves
\* the result as it was, which is null.
C18_FailureStored ==
    [][(call.pc = "awaiting" /\ call'.pc = "done" /\ call'.outcome.kind = "throw") =>
          /\ call'.outcome.thrown.isError
          /\ error' = call'.outcome.thrown.message
          /\ mode' = "select"
          /\ result' = result
          /\ result' = <<>>]_vars

\* C18 witness: the no-person failure is stored as the error, on the select
\* screen, with no result.
C18_Witness ==
    /\ Done /\ out.kind = "throw" /\ out.thrown.message = ErrNoPerson
    /\ error = ErrNoPerson /\ mode = "select" /\ result = <<>>

\* C19: App is in loading mode exactly while the oracle call is pending, and
\* the only step that changes anything in loading mode is the one in which
\* the call settles: it leads to mode result with a result and no error, or
\* to mode select with an error and no result.
C19_LoadingOutcome ==
    /\ [](mode = "loading" <=> call.pc = "awaiting")
    /\ [][mode = "loading" =>
            /\ call'.pc = "done"
            /\ \/ mode' = "result" /\ result' # <<>> /\ error' = <<>>
                    /\ call'.outcome.kind = "return"
               \/ mode' = "select" /\ error' # <<>> /\ result' = <<>>
                    /\ call'.outcome.kind = "throw"]_vars

\* C19 witness: the second analysis left loading mode with a result and no
\* error.
C19_Witness ==
    /\ Done /\ out.kind = "return" /\ analyses = 2
    /\ mode = "result" /\ result # <<>> /\ error = <<>>

\* C20: a stored result stays as it is until the step that discards it, and
\* that step, like every step out of the result screen, leaves result null,
\* error null, referenceChoice null and mode select; on the result screen the
\* reset is available.
C20_Reset ==
    /\ [][(result # <<>> /\ result' # result) \/ (mode = "result" /\ mode' # "result") =>
            /\ result' = <<>>
            /\ error' = <<>>
            /\ referenceChoice' = "null"
            /\ mode' = "select"]_vars
    /\ [](mode = "result" => ENABLED handleReset)

\* C20 witness: an analysis succeeded and its result has been discarded.
C20_Witness ==
    /\ Done /\ out.kind = "return"
    /\ result = <<>> /\ error = <<>> /\ referenceChoice = "null" /\ mode = "select"

\* C21: mode is result exactly when a result is stored: the result screen
\* always has a result to show, and no result is held in select, upload,
\* camera or loading mode.
C21_ResultMode ==
    /\ mode \in {"select", "upload", "camera", "loading", "result"}
    /\ mode = "result" <=> result # <<>>

\* C21 witness: a result was shown and discarded, and App is in upload mode
\* again with no result.
C21_Witness ==
    /\ Done /\ out.kind = "return" /\ mode = "upload" /\ result = <<>>

\* C22: in upload, camera and loading mode referenceChoice is yes or no; an
\* Analyze click in upload or camera mode is not dropped by the guard; the
\* step that issues a request is taken with a reference choice made, and
\* the request carries hasReference = (referenceChoice is yes), which is
\* still the choice held while the call is pending.
C22_ReferenceChosen ==
    /\ [](mode \in {"upload", "camera", "loading"} => referenceChoice \in {"yes", "no"})
    /\ []((mode \in {"upload", "camera"} /\ analyses < MaxAnalyses) =>
            \A base64Image \in Images :
                ENABLED (handleAnalysis(base64Image) /\ mode' = "loading"))
    /\ [][requests' # requests =>
            /\ referenceChoice \in {"yes", "no"}
            /\ referenceChoice' = referenceChoice
            /\ call'.pc = "awaiting"
            /\ call'.hasReference = (referenceChoice = "yes")
            /\ call'.request = Request(call'.image, referenceChoice = "yes")]_vars
    /\ [](call.pc = "awaiting" => call.hasReference = (referenceChoice = "yes"))

\* C22 witness: a request without reference is pending, the choice being no.
C22_Witness ==
    /\ mode = "loading" /\ call.pc = "awaiting"
    /\ referenceChoice = "no" /\ call.hasReference = FALSE /\ requests = 1

\* C23: the step in which an analysis fails leaves referenceChoice as it
\* was, a choice made, with mode select (the upload/camera choice); a
\* stored error changes only in a step that starts an analysis or resets,
\* and then to null; it is held only in select, upload and camera mode, and
\* the banner shows it exactly when mode is select.
C23_ErrorFrame ==
    /\ [][(call.pc = "awaiting" /\ call'.pc = "done" /\ call'.outcome.kind = "throw") =>
            /\ referenceChoice' = referenceChoice
            /\ referenceChoice' \in {"yes", "no"}
            /\ mode' = "select"
            /\ error' # <<>>]_vars
    /\ [][(error # <<>> /\ error' # error) =>
            /\ error' = <<>>
            /\ \/ mode \in {"upload", "camera"} /\ mode' = "loading" /\ analyses' = analyses + 1
               \/ mode = "result" /\ mode' = "select" /\ result' = <<>>]_vars
    /\ [](error # <<>> => mode \in {"select", "upload", "camera"})
    /\ [](error # <<>> => (errorBanner <=> mode = "select"))

\* C23 witness: after a failed analysis the user went on to the camera; the
\* error is still stored, not shown, and the reference choice is the one
\* made before.
C23_Witness ==
    /\ Done /\ out.kind = "throw" /\ error = ErrChild
    /\ mode = "camera" /\ referenceChoice = "yes" /\ ~errorBanner

\* C24: once CameraInput is unmounted, no stream it acquired is active,
\* whether a getUserMedia request settles before or after the unmount.
C24_Claim ==
    ~cameraInput.mounted => cameraInput.live = {}

\* C25: while a captured image is held no stream is active and none is
\* held; at most one acquired stream is active at a time; the Retake step
\* clears the image, marks the camera as initializing and issues the first
\* request of a new start; and the Capture step is taken with a held, active
\* stream, without error and with initialization finished.
C25_StreamFollowsCapture ==
    /\ [](cameraInput.capturedImage # "" =>
            cameraInput.live = {} /\ cameraInput.streamRef = 0)
    /\ [](Cardinality(cameraInput.live) <= 1)
    /\ [][(cameraInput.capturedImage # "" /\ cameraInput'.capturedImage = "") =>
            /\ cameraInput'.mounted
            /\ cameraInput'.isCameraInitializing
            /\ cameraInput'.error = ""
            /\ Len(cameraInput'.starts) = Len(cameraInput.starts) + 1
            /\ cameraInput'.starts[Len(cameraInput'.starts)].pc = "first"]_vars
    /\ [][(cameraInput.capturedImage = "" /\ cameraInput'.capturedImage # "") =>
            /\ cameraInput.streamRef # 0
            /\ cameraInput.streamRef \in cameraInput.live
            /\ cameraInput.error = ""
            /\ ~cameraInput.isCameraInitializing
            /\ cameraInput.readyState >= 2]_vars

\* C25 witness: after a capture and a retake the second stream is the one
\* active stream, and the camera is ready for the next capture.
C25_Witness ==
    /\ cameraInput.mounted /\ cameraInput.captures = 1
    /\ cameraInput.capturedImage = ""
    /\ cameraInput.live = {2} /\ cameraInput.streamRef = 2
    /\ ~cameraInput.isCameraInitializing

\* C26: in the version with the fallback, a start makes its second request
\* exactly when the first was rejected with an error named
\* OverconstrainedError or ConstraintNotSatisfiedError; a first rejection of
\* another name ends the start with that error; a start makes at most two
\* requests; an error is set only when the start has ended with its last
\* request rejected; and then isCameraInitializing is false and no stream is
\* held.
C26_Claim ==
    cameraInput.version = "fallback" =>
        /\ \A i \in 1..Len(cameraInput.starts) :
              LET r == cameraInput.starts[i]
              IN /\ r.requests <= 2
                 /\ r.requests = 2 <=> r.first.name \in ConstraintErrorNames
                 /\ (r.first # NoCameraError /\ r.first.name \notin ConstraintErrorNames) =>
                        r.pc = "done" /\ r.outcome = "error" /\ r.last = r.first
                 /\ r.outcome = "error" => r.last # NoCameraError
        /\ cameraInput.error # "" =>
              /\ cameraInput.starts[Len(cameraInput.starts)].outcome = "error"
              /\ ~cameraInput.isCameraInitializing
              /\ cameraInput.streamRef = 0
        /\ (cameraInput.mounted /\ cameraInput.starts[Len(cameraInput.starts)].outcome = "error") =>
              /\ cameraInput.error # ""
              /\ ~cameraInput.isCameraInitializing
              /\ cameraInput.streamRef = 0

\* C27: the selection of a file whose type does not start with image/ sets
\* the error 'Please select an image file.' and leaves the held image as it
\* is; after every selection the error is that one or null, so that the
\* previous error is gone; and the image passed to onAnalyze is not null and
\* is what was read from a file that passed the type test and has an image
\* type.
C27_Selection ==
    /\ [][(imageInput'.selections # imageInput.selections) =>
            LET file == imageInput'.selected
                notImage == file # NoFile /\ ~startsWith(file.type, <<"image/">>)
            IN /\ imageInput'.image = imageInput.image
               /\ notImage => imageInput'.error = ErrNotImage
               /\ ~notImage => imageInput'.error = ""]_vars
    /\ [][(imageInput'.analyzed # imageInput.analyzed) =>
            /\ imageInput'.analyzed = imageInput.image
            /\ imageInput'.analyzed # ""]_vars
    /\ [](imageInput.analyzed # "" =>
            \E file \in Files :
                /\ file.name \in imageInput.accepted
                /\ startsWith(file.type, <<"image/">>)
                /\ base64Of(readAsDataURL(file)) = imageInput.analyzed)

\* C27 witness: a text file was selected while an image was held; the error
\* is set and the image is still the one read from the image file.
C27_Witness ==
    /\ imageInput.mounted
    /\ imageInput.selected.name = "c.txt"
    /\ imageInput.error = ErrNotImage
    /\ imageInput.image = "img1"
    /\ imageInput.reads = <<[file |-> File("a.png", <<"image/", "png">>, "img1", TRUE),
                             pc |-> "done"]>>

\* A fraction lies in the half-open interval from lo to hi
InQuarter(x, lo, hi) == FracLE(Frac(lo, 1), x) /\ ~FracLE(Frac(hi, 1), x)

\* C28: for every bmi >= 0 the marker position is between 2 and 98, is not
\* greater than the position of the next larger bmi, lies in the quarter of
\* the bar of the category of the bmi (Underweight 0-25, Normal weight 25-50,
\* Overweight 50-75, Obese 75-100), and from bmi 40 on is the position of
\* bmi 40.
C28_Marker ==
    (display.pc = "rendered" /\ display.from = "bmi") =>
        /\ FracLE(Frac(2, 1), display.position)
        /\ FracLE(display.position, Frac(98, 1))
        /\ FracLE(display.position, display.positionNext)
        /\ display.category = "Underweight" => InQuarter(display.position, 0, 25)
        /\ display.category = "Normal weight" => InQuarter(display.position, 25, 50)
        /\ display.category = "Overweight" => InQuarter(display.position, 50, 75)
        /\ display.category = "Obese" => InQuarter(display.position, 75, 100)
        /\ ~FracLess(display.bmi, 40, 1) => display.position = Frac(98, 1)

\* C28 witness: bmi 22.86 is rendered in the Normal weight quarter, below
\* the position of bmi 22.87.
C28_Witness ==
    /\ display.pc = "rendered" /\ display.from = "bmi"
    /\ display.bmi = Frac(2286, 100) /\ display.category = "Normal weight"
    /\ InQuarter(display.position, 41, 42)
    /\ display.position # display.positionNext

\* C29: for every heightCm > 0 the inches shown are between 0 and 11, and
\* feet * 12 + inches is heightCm / 2.54 rounded to the nearest inch.
C29_Claim ==
    (display.pc = "rendered" /\ display.from = "height" /\ display.heightCm > 0) =>
        /\ display.heightInches \in 0..11
        /\ display.heightFeet * 12 + display.heightInches
              = (100 * display.heightCm + 127) \div 254

\* C30: on every result of the oracle call, a response or a failure of the
\* call, the two versions of analyzeImageForMetrics both return, with the
\* same heightCm, weightKg and accuracy, or both throw, an Error with the
\* same message.
C30_Equivalent ==
    (validation.current # NoOutcome /\ validation.earlier # NoOutcome) =>
        /\ validation.current.kind = validation.earlier.kind
        /\ validation.current.kind = "return" =>
              /\ validation.current.heightCm = validation.earlier.heightCm
              /\ validation.current.weightKg = validation.earlier.weightKg
              /\ validation.current.accuracy = validation.earlier.accuracy
        /\ validation.current.kind = "throw" =>
              /\ validation.current.thrown.isError
              /\ validation.earlier.thrown.isError
              /\ validation.current.thrown.message = validation.earlier.thrown.message

\* C30 witness: for a response with analysisSuccess=false and reason
\* child_detected, the version with hasReference, called with a reference,
\* and the earlier version have both thrown the adults-only error.
C30_Witness ==
    /\ validation.raw.kind = "object"
    /\ validation.raw.data.analysisSuccess = Bool(FALSE)
    /\ validation.raw.data.reason = Str("child_detected")
    /\ validation.hasReference
    /\ validation.current.kind = "throw" /\ validation.earlier.kind = "throw"
    /\ validation.current.thrown.message = ErrChild
    /\ validation.earlier.thrown.message = ErrChild

====
